---------------------------- MODULE Spec2Model ----------------------------
(***************************************************************************)
(* dataset.py: the generator of user_sessions.txt.                         *)
(*                                                                         *)
(* The script builds the list user_ids (user001 .. user500), runs one loop *)
(* iteration per id (read the clock, draw an offset and a status, build    *)
(* the record, append the formatted line to sessions), then opens          *)
(* user_sessions.txt for writing, writes "\n".join(sessions), leaves the   *)
(* with block and prints a message.                                        *)
(*                                                                         *)
(* Strings are TLA+ strings: \o is concatenation, Len the length and       *)
(* SubSeq(s, i, j) the slice s[i-1:j].                                     *)
(*                                                                         *)
(* The environment: the file on disk (it outlives a run of the script),    *)
(* the wall clock and the state of the generator behind the random module. *)
(***************************************************************************)
EXTENDS Integers, Sequences, FiniteSets, TLC

VARIABLES
    pc,            \* the statement the process is at
    it,            \* the for loop's iterator: the index of the next element
    sessions,      \* the list sessions
    user_id,       \* the loop variable
    now,           \* what datetime.now() returned in the last iteration
    offset,        \* what random.randint returned in the last iteration
    login_time,    \* the datetime of the last iteration, [days, seconds]
    status,        \* the status of the last iteration
    session_data,  \* the dict of the last iteration: its items in order
    f,             \* the file object: "unbound", "open" or "closed"
    stdout,        \* what the process has printed
    calls,         \* the file system calls the process has made, in order
    file,          \* the file user_sessions.txt on disk: [exists, content]
    clock,         \* the wall clock, [days, seconds]
    rng,           \* the state of the random generator
    last_exit      \* how the run before ended: "none", "done" or "fatal"

vars == <<pc, it, sessions, user_id, now, offset, login_time, status,
          session_data, f, stdout, calls, file, clock, rng, last_exit>>

-----------------------------------------------------------------------------
(* The constants of the script. *)

\* range(1, 501): the ids 1..500
NumUsers == 500

\* random.randint(0, 1440)
MaxOffset == 1440

\* the seconds of a day, the unit datetime normalises to
SecondsPerDay == 86400

(* The bounds of the environment. *)

\* the number of seeds the generator is started from
NumSeeds == 2

\* the seconds the wall clock advances between two readings
ClockStep == 1

\* the proleptic Gregorian ordinal of the day the runs start on
StartDay == 740000

\* the times of day a run can start at: 23:59:50, so that the loop crosses
\* midnight, and 12:34:56
StartSeconds == {86390, 45296}

-----------------------------------------------------------------------------
(* Strings. *)

\* the first position >= from at which sub occurs in s, or 0
Find(s, sub, from) ==
    LET hits == {i \in from..(Len(s) - Len(sub) + 1) :
                    SubSeq(s, i, i + Len(sub) - 1) = sub}
    IN  IF hits = {} THEN 0 ELSE CHOOSE i \in hits : \A j \in hits : i <= j

RECURSIVE ZeroPad(_, _)
\* the digits s of a format spec 0<width>d: zeros on the left up to width,
\* nothing cut off when s is longer
ZeroPad(s, width) == IF Len(s) >= width THEN s ELSE ZeroPad("0" \o s, width)

\* f"user{i:02d}": the width one short
UserIdWidth2(i) == "user" \o ZeroPad(ToString(i), 2)

\* f"user{i:03d}"
UserId(i) == "user" \o ZeroPad(ToString(i), 3)

\* range(0, 500) in place of range(1, 501)
user_ids_from_zero == [i \in 1..NumUsers |-> UserId(i - 1)]

\* user_ids = [f"user{i:03d}" for i in range(1, 501)]
user_ids == [i \in 1..NumUsers |-> UserId(i)]

\* the vocabulary with one value misspelt
StatusesTypo == <<"active", "inactive", "expire">>

\* ["active", "inactive", "expired"]
Statuses == <<"active", "inactive", "expired">>

-----------------------------------------------------------------------------
(* datetime: a datetime is [days, seconds] with seconds in 0..86399, a     *)
(* timedelta is normalised the same way (microseconds are not modelled).   *)

\* datetime.timedelta(hours=m)
TimedeltaHours(m) ==
    [days    |-> (m * 3600) \div SecondsPerDay,
     seconds |-> (m * 3600) % SecondsPerDay]

\* datetime.timedelta(minutes=m)
Timedelta(m) ==
    [days |-> (m * 60) \div SecondsPerDay, seconds |-> (m * 60) % SecondsPerDay]

\* dt - td
DatetimeSub(dt, td) ==
    LET s == dt.seconds - td.seconds
    IN  [days    |-> (dt.days - td.days) + (s \div SecondsPerDay),
         seconds |-> s % SecondsPerDay]

\* dt.strftime("%I:%M"): the hour on the 12-hour clock
StrftimeHour12(dt) ==
    LET h == (dt.seconds \div 3600) % 12
    IN  ZeroPad(ToString(IF h = 0 THEN 12 ELSE h), 2) \o ":"
            \o ZeroPad(ToString((dt.seconds % 3600) \div 60), 2)

\* dt.strftime("%H:%M")
Strftime(dt) ==
    ZeroPad(ToString(dt.seconds \div 3600), 2) \o ":"
        \o ZeroPad(ToString((dt.seconds % 3600) \div 60), 2)

\* the clock after a reading: ClockStep seconds later
ClockAdvance(c) ==
    LET s == c.seconds + ClockStep
    IN  [days    |-> c.days + (s \div SecondsPerDay),
         seconds |-> s % SecondsPerDay]

-----------------------------------------------------------------------------
(* random: a deterministic generator started from a seed the script does   *)
(* not choose.  A draw maps the generator's state to the range asked for   *)
(* and steps the state by one; the runs modelled are those of the seeds    *)
(* 0..NumSeeds-1.  With the stride a quarter of the range, the draws of    *)
(* randint(0, 1440) from seed 0 are 0, 720, 1440, 719, 1439, ..., so both  *)
(* ends of the range occur, and successive draws of choice differ.         *)

\* random.randint(a, b) in state r: a value of a..b, both ends included
Randint(r, a, b) == a + ((r * ((b - a) \div 4)) % (b - a + 1))

\* random.choice(seq) in state r
Choice(r, seq) == seq[(r % Len(seq)) + 1]

-----------------------------------------------------------------------------
(* json.dumps of a dict whose keys and values are strings of letters,     *)
(* digits and ':'.  Of the escapes, those of the quote and the backslash  *)
(* are modelled; the items are separated by ", " and a key from its value *)
(* by ": ", the defaults.                                                 *)

RECURSIVE JsonEscape(_)
\* the characters of s with '"' and '\' escaped
JsonEscape(s) ==
    IF s = "" THEN ""
    ELSE LET c == Head(s)
         IN  (IF c = "\"" \/ c = "\\" THEN "\\" \o c ELSE c)
                \o JsonEscape(Tail(s))

JsonString(s) == "\"" \o JsonEscape(s) \o "\""

RECURSIVE JsonItems(_)
\* the items "key": "value" of the pairs d, separated by ", "
JsonItems(d) ==
    IF d = <<>> THEN ""
    ELSE JsonString(d[1][1]) \o ": " \o JsonString(d[1][2])
            \o (IF Len(d) > 1 THEN ", " ELSE "") \o JsonItems(Tail(d))

\* json.dumps(d)
JsonDumps(d) == "{" \o JsonItems(d) \o "}"

\* the dict with status before loginTime
SessionDataReordered(uid, lt, st) ==
    << <<"userId", uid>>, <<"status", st>>, <<"loginTime", Strftime(lt)>> >>

\* the dict session_data, its items in insertion order
SessionData(uid, lt, st) ==
    << <<"userId", uid>>, <<"loginTime", Strftime(lt)>>, <<"status", st>> >>

\* f"session:{user_id} -> {json.dumps(session_data)}", with the arrow U+2192
SessionLine(uid, sd) == "session:" \o uid \o " → " \o JsonDumps(sd)

RECURSIVE JoinTerminated(_, _)
\* every element followed by sep, the last one too
JoinTerminated(sep, list) ==
    IF list = <<>> THEN ""
    ELSE IF Len(list) = 1 THEN list[1] \o sep
    ELSE LET h == Len(list) \div 2
         IN  JoinTerminated(sep, SubSeq(list, 1, h))
                \o JoinTerminated(sep, SubSeq(list, h + 1, Len(list)))

RECURSIVE Join(_, _)
\* sep.join(list): the elements in order with sep between neighbours (the list
\* is split in halves to keep the recursion shallow)
Join(sep, list) ==
    IF list = <<>> THEN ""
    ELSE IF Len(list) = 1 THEN list[1]
    ELSE LET h == Len(list) \div 2
         IN  Join(sep, SubSeq(list, 1, h)) \o sep
                \o Join(sep, SubSeq(list, h + 1, Len(list)))

\* the message of the final print
SuccessMessage == "Generated 500 sessions and saved to user_sessions.txt"

-----------------------------------------------------------------------------
(* The process. *)

Unbound == "unbound"

\* the states a run can start in: the generator's seed and the time of day
Seeds == 0..(NumSeeds - 1)
StartClocks == {[days |-> StartDay, seconds |-> s] : s \in StartSeconds}

\* the interpreter has run the imports, sessions = [] and the list user_ids
ProcessStart ==
    /\ pc = "loop"
    /\ it = 1
    /\ sessions = <<>>
    /\ user_id = Unbound
    /\ now = Unbound
    /\ offset = Unbound
    /\ login_time = Unbound
    /\ status = Unbound
    /\ session_data = Unbound
    /\ f = Unbound
    /\ stdout = <<>>
    /\ calls = <<>>
    /\ rng \in Seeds
    /\ clock \in StartClocks

Init ==
    /\ ProcessStart
    /\ file = [exists |-> FALSE, content |-> ""]
    /\ last_exit = "none"

\* the body with the records of status "expired" left out of sessions
LoopBodySkipExpired(off, st) ==
    LET uid == user_ids[it]
        lt  == DatetimeSub(clock, Timedelta(off))
        sd  == SessionData(uid, lt, st)
    IN  /\ user_id' = uid
        /\ now' = clock
        /\ offset' = off
        /\ login_time' = lt
        /\ status' = st
        /\ session_data' = sd
        /\ sessions' = IF st = "expired" THEN sessions
                       ELSE Append(sessions, SessionLine(uid, sd))
        /\ it' = it + 1

\* the body of the for loop for the element user_ids[it], with the offset off
\* and the status st drawn
LoopBody(off, st) ==
    LET uid == user_ids[it]
        lt  == DatetimeSub(clock, Timedelta(off))
        sd  == SessionData(uid, lt, st)
    IN  /\ user_id' = uid
        /\ now' = clock
        /\ offset' = off
        /\ login_time' = lt
        /\ status' = st
        /\ session_data' = sd
        /\ sessions' = Append(sessions, SessionLine(uid, sd))
        /\ it' = it + 1

\* one iteration: read the clock, draw the offset, draw the status, build the
\* record, append the line
Iterate ==
    /\ pc = "loop"
    /\ it <= Len(user_ids)
    /\ LoopBody(Randint(rng, 0, MaxOffset), Choice(rng + 1, Statuses))
    /\ clock' = ClockAdvance(clock)
    /\ rng' = rng + 2
    /\ UNCHANGED <<pc, f, stdout, calls, file, last_exit>>

\* the iterator is exhausted: the for statement ends
LoopExit ==
    /\ pc = "loop"
    /\ it > Len(user_ids)
    /\ pc' = "open"
    /\ UNCHANGED <<it, sessions, user_id, now, offset, login_time, status,
                   session_data, f, stdout, calls, file, clock, rng,
                   last_exit>>

\* open('user_sessions.txt', 'a', encoding='utf-8'): the content is kept
OpenAppend ==
    /\ pc = "open"
    /\ file' = [file EXCEPT !.exists = TRUE]
    /\ f' = "open"
    /\ calls' = Append(calls, "open:a")
    /\ pc' = "write"
    /\ UNCHANGED <<it, sessions, user_id, now, offset, login_time, status,
                   session_data, stdout, clock, rng, last_exit>>

\* open('user_sessions.txt', 'w', encoding='utf-8') succeeds: the file is
\* created or truncated
OpenOk ==
    /\ pc = "open"
    /\ file' = [exists |-> TRUE, content |-> ""]
    /\ f' = "open"
    /\ calls' = Append(calls, "open:w")
    /\ pc' = "write"
    /\ UNCHANGED <<it, sessions, user_id, now, offset, login_time, status,
                   session_data, stdout, clock, rng, last_exit>>

\* open raises OSError: nothing is bound to f, the exception ends the process
OpenFail ==
    /\ pc = "open"
    /\ calls' = Append(calls, "open:w")
    /\ pc' = "fatal"
    /\ UNCHANGED <<it, sessions, user_id, now, offset, login_time, status,
                   session_data, f, stdout, file, clock, rng, last_exit>>

\* f.write("\n".join(sessions)) succeeds
WriteOk ==
    /\ pc = "write"
    /\ file' = [file EXCEPT !.content = file.content \o Join("\n", sessions)]
    /\ calls' = Append(calls, "write")
    /\ pc' = "close"
    /\ UNCHANGED <<it, sessions, user_id, now, offset, login_time, status,
                   session_data, f, stdout, clock, rng, last_exit>>

\* f.write raises OSError and no with statement closes f
WriteFailLeaked ==
    /\ pc = "write"
    /\ \E n \in {0, Len(sessions[1])} :
          file' = [file EXCEPT
                      !.content = file.content \o SubSeq(Join("\n", sessions), 1, n)]
    /\ calls' = Append(calls, "write")
    /\ pc' = "fatal"
    /\ UNCHANGED <<it, sessions, user_id, now, offset, login_time, status,
                   session_data, f, stdout, clock, rng, last_exit>>

\* f.write raises OSError: nothing or a part of the content has reached the
\* file, the with statement closes f and the exception ends the process
WriteFail ==
    /\ pc = "write"
    /\ \E n \in {0, Len(sessions[1])} :
          file' = [file EXCEPT
                      !.content = file.content \o SubSeq(Join("\n", sessions), 1, n)]
    /\ calls' = calls \o <<"write", "close">>
    /\ f' = "closed"
    /\ pc' = "fatal"
    /\ UNCHANGED <<it, sessions, user_id, now, offset, login_time, status,
                   session_data, stdout, clock, rng, last_exit>>

\* the with statement ends: f.close()
Close ==
    /\ pc = "close"
    /\ f' = "closed"
    /\ calls' = Append(calls, "close")
    /\ pc' = "print"
    /\ UNCHANGED <<it, sessions, user_id, now, offset, login_time, status,
                   session_data, stdout, file, clock, rng, last_exit>>

\* f.close() raises OSError while flushing: the file object is closed all the
\* same, the exception ends the process
CloseFail ==
    /\ pc = "close"
    /\ f' = "closed"
    /\ calls' = Append(calls, "close")
    /\ pc' = "fatal"
    /\ UNCHANGED <<it, sessions, user_id, now, offset, login_time, status,
                   session_data, stdout, file, clock, rng, last_exit>>

\* print("Generated 500 sessions and saved to user_sessions.txt"), and the
\* process ends
PrintDone ==
    /\ pc = "print"
    /\ stdout' = Append(stdout, SuccessMessage)
    /\ pc' = "done"
    /\ UNCHANGED <<it, sessions, user_id, now, offset, login_time, status,
                   session_data, f, calls, file, clock, rng, last_exit>>

\* the script is run again: a new process, the file as the last run left it
Rerun ==
    /\ pc \in {"done", "fatal"}
    /\ pc' = "loop"
    /\ it' = 1
    /\ sessions' = <<>>
    /\ user_id' = Unbound
    /\ now' = Unbound
    /\ offset' = Unbound
    /\ login_time' = Unbound
    /\ status' = Unbound
    /\ session_data' = Unbound
    /\ f' = Unbound
    /\ stdout' = <<>>
    /\ calls' = <<>>
    /\ rng' \in Seeds
    /\ clock' \in StartClocks
    /\ last_exit' = pc
    /\ UNCHANGED file

Next ==
    \/ Iterate
    \/ LoopExit
    \/ OpenOk
    \/ OpenFail
    \/ WriteOk
    \/ WriteFail
    \/ Close
    \/ CloseFail
    \/ PrintDone
    \/ Rerun

Spec == Init /\ [][Next]_vars

-----------------------------------------------------------------------------
(* The first iteration with the draws left open: any offset randint(0, 1440) *)
(* can return, any element choice can pick, from a wider set of clocks.     *)

\* times of day around the boundaries of a minute, an hour and a day
BoundarySeconds == {0, 59, 60, 3599, 3600, 43200, 86340, 86399}

InitFirst ==
    /\ pc = "loop"
    /\ it = 1
    /\ sessions = <<>>
    /\ user_id = Unbound
    /\ now = Unbound
    /\ offset = Unbound
    /\ login_time = Unbound
    /\ status = Unbound
    /\ session_data = Unbound
    /\ f = Unbound
    /\ stdout = <<>>
    /\ calls = <<>>
    /\ rng = 0
    /\ clock \in {[days |-> StartDay, seconds |-> s] : s \in BoundarySeconds}
    /\ file = [exists |-> FALSE, content |-> ""]
    /\ last_exit = "none"

\* the values random.randint(a, b) can return
RandintRange(a, b) == a..b

\* the values random.choice(seq) can return
ChoiceRange(seq) == {seq[i] : i \in 1..Len(seq)}

IterateFirst ==
    /\ pc = "loop"
    /\ it = 1
    /\ \E off \in RandintRange(0, MaxOffset), st \in ChoiceRange(Statuses) :
          LoopBody(off, st)
    /\ clock' = ClockAdvance(clock)
    /\ rng' = rng + 2
    /\ UNCHANGED <<pc, f, stdout, calls, file, last_exit>>

NextFirst == IterateFirst

SpecFirst == InitFirst /\ [][NextFirst]_vars

-----------------------------------------------------------------------------
(* Reading the output back: splitting the content into lines and parsing a *)
(* line into its key and the items of its JSON object.                     *)

\* what a scan or a parse returns when the text is not of the form expected
Invalid == [ok |-> FALSE]

RECURSIVE NewlinesIn(_, _, _)
\* the positions lo..hi of s that hold a newline, in ascending order (the range
\* is split in halves to keep the recursion shallow)
NewlinesIn(s, lo, hi) ==
    IF lo > hi THEN <<>>
    ELSE IF lo = hi THEN (IF SubSeq(s, lo, lo) = "\n" THEN <<lo>> ELSE <<>>)
    ELSE LET m == (lo + hi) \div 2
         IN  NewlinesIn(s, lo, m) \o NewlinesIn(s, m + 1, hi)

\* the number of newline characters of s
CountNewlines(s) == Len(NewlinesIn(s, 1, Len(s)))

\* s.split("\n"): the pieces between the newlines, empty pieces kept
SplitLines(s) ==
    LET nl == NewlinesIn(s, 1, Len(s))
        n  == Len(nl)
    IN  [k \in 1..(n + 1) |->
            SubSeq(s, IF k = 1 THEN 1 ELSE nl[k - 1] + 1,
                      IF k = n + 1 THEN Len(s) ELSE nl[k] - 1)]

Digits == {"0", "1", "2", "3", "4", "5", "6", "7", "8", "9"}

IsDigits(s) == \A i \in 1..Len(s) : SubSeq(s, i, i) \in Digits

DigitValue(c) == CHOOSE d \in 0..9 : ToString(d) = c

RECURSIVE DecimalValue(_)
\* the number a string of digits denotes
DecimalValue(s) ==
    IF s = "" THEN 0
    ELSE 10 * DecimalValue(SubSeq(s, 1, Len(s) - 1))
            + DigitValue(SubSeq(s, Len(s), Len(s)))

RECURSIVE ScanString(_, _, _)
\* the JSON string whose opening quote is before position i of s:
\* [ok, value, next] with next the position after the closing quote
ScanString(s, i, acc) ==
    IF i > Len(s) THEN Invalid
    ELSE LET c == SubSeq(s, i, i)
         IN  IF c = "\"" THEN [ok |-> TRUE, value |-> acc, next |-> i + 1]
             ELSE IF c = "\\" THEN
                    (IF i + 1 > Len(s) THEN Invalid
                     ELSE ScanString(s, i + 2, acc \o SubSeq(s, i + 1, i + 1)))
             ELSE ScanString(s, i + 1, acc \o c)

RECURSIVE ScanItems(_, _, _)
\* the items "key": "value" from position i of s up to the closing brace that
\* ends s: [ok, items], the items as pairs in the order written
ScanItems(s, i, acc) ==
    IF SubSeq(s, i, i) # "\"" THEN Invalid
    ELSE LET k == ScanString(s, i + 1, "")
         IN  IF ~k.ok THEN Invalid
             ELSE IF SubSeq(s, k.next, k.next + 2) # ": \"" THEN Invalid
             ELSE LET v == ScanString(s, k.next + 3, "")
                  IN  IF ~v.ok THEN Invalid
                      ELSE LET item == <<k.value, v.value>>
                           IN  IF SubSeq(s, v.next, Len(s)) = "}"
                                 THEN [ok |-> TRUE, items |-> Append(acc, item)]
                               ELSE IF SubSeq(s, v.next, v.next + 1) = ", "
                                 THEN ScanItems(s, v.next + 2, Append(acc, item))
                               ELSE Invalid

\* the items of a JSON object of string values
JsonItemsOf(s) ==
    IF Len(s) < 2 \/ SubSeq(s, 1, 1) # "{" THEN Invalid
    ELSE IF s = "{}" THEN [ok |-> TRUE, items |-> <<>>]
    ELSE ScanItems(s, 2, <<>>)

\* a line "session:<key> -> <json>": [ok, key, items]
ParseLine(line) ==
    LET a == Find(line, " → ", 9)
    IN  IF Len(line) < 8 \/ SubSeq(line, 1, 8) # "session:" \/ a = 0 THEN Invalid
        ELSE LET j == JsonItemsOf(SubSeq(line, a + 3, Len(line)))
             IN  IF ~j.ok THEN Invalid
                 ELSE [ok |-> TRUE, key |-> SubSeq(line, 9, a - 1), items |-> j.items]

\* the lines of the file user_sessions.txt
FileLines == SplitLines(file.content)

HasItem(items, key) == \E i \in 1..Len(items) : items[i][1] = key

\* the value of the item of that key
ItemValue(items, key) ==
    items[CHOOSE i \in 1..Len(items) : items[i][1] = key][2]

\* a string HH:MM of two digits, a colon and two digits
IsHourMinute(s) ==
    /\ Len(s) = 5
    /\ SubSeq(s, 3, 3) = ":"
    /\ IsDigits(SubSeq(s, 1, 2))
    /\ IsDigits(SubSeq(s, 4, 5))
    /\ DecimalValue(SubSeq(s, 1, 2)) \in 0..23
    /\ DecimalValue(SubSeq(s, 4, 5)) \in 0..59

\* the string "user" followed by exactly three decimal digits
IsUserId(u) ==
    /\ Len(u) = 7
    /\ SubSeq(u, 1, 4) = "user"
    /\ IsDigits(SubSeq(u, 5, 7))

\* the seconds from the datetime a to the datetime b, no more than a few days
\* apart
SecondsBetween(a, b) ==
    (b.days - a.days) * SecondsPerDay + (b.seconds - a.seconds)

\* the calls of a run that has opened, written and closed the file
AllCalls == <<"open:w", "write", "close">>

-----------------------------------------------------------------------------
(* C1: after a successful run the file holds exactly 500 lines: the 500    *)
(* record strings of the run in order, joined by 499 newlines, no line     *)
(* empty, no record dropped or duplicated.                                 *)
Thm_C1_Exactly500Lines ==
    pc = "done" =>
        LET lines == FileLines
        IN  /\ Len(lines) = 500
            /\ CountNewlines(file.content) = 499
            /\ \A k \in 1..Len(lines) : lines[k] # ""
            /\ lines = sessions
            /\ Cardinality({lines[k] : k \in 1..Len(lines)}) = 500

\* a run has ended successfully and the file holds text
Witness_C1 == pc = "done" /\ file.exists /\ Len(file.content) > 500

(* C2: in the output every record's userId is "user" followed by exactly   *)
(* three digits, no two of the 500 records share a userId, and the first   *)
(* and the last are user001 and user500.                                   *)
Thm_C2_UserIdFormatAndUnique ==
    pc = "done" =>
        LET lines == FileLines
            ids   == [k \in 1..Len(lines) |->
                        LET rec == ParseLine(lines[k])
                        IN  IF rec.ok /\ HasItem(rec.items, "userId")
                              THEN ItemValue(rec.items, "userId")
                              ELSE ""]
        IN  /\ Len(lines) = 500
            /\ \A k \in 1..Len(lines) : IsUserId(ids[k])
            /\ Cardinality({ids[k] : k \in 1..Len(lines)}) = 500
            /\ ids[1] = "user001"
            /\ ids[500] = "user500"

\* the output of a run holds the records of user001, user009 and user500
Witness_C2 ==
    /\ pc = "done"
    /\ LET lines == FileLines
       IN  /\ Len(lines) = 500
           /\ ParseLine(lines[1]).items[1] = <<"userId", "user001">>
           /\ ParseLine(lines[9]).items[1] = <<"userId", "user009">>
           /\ ParseLine(lines[500]).items[1] = <<"userId", "user500">>

Thm_C4_LoginTimeOfDay ==
    user_id # Unbound =>
        LET s   == ItemValue(session_data, "loginTime")
            tod == ((now.seconds \div 60) - offset) % 1440
        IN  /\ IsHourMinute(s)
            /\ DecimalValue(SubSeq(s, 1, 2)) = tod \div 60
            /\ DecimalValue(SubSeq(s, 4, 5)) = tod % 60
            /\ ParseLine(sessions[Len(sessions)]).ok
            /\ ItemValue(ParseLine(sessions[Len(sessions)]).items, "loginTime") = s

\* one minute before 00:00:59 is 23:59 of the day before
Witness_C4 ==
    /\ user_id # Unbound
    /\ now.seconds = 59
    /\ offset = 1
    /\ login_time.days = now.days - 1
    /\ ItemValue(session_data, "loginTime") = "23:59"

(* C5: every line of the output has the form                               *)
(* session:<userId> -> {"userId":...,"loginTime":"HH:MM","status":...}:    *)
(* the key after "session:" is the userId of the line's JSON object, and   *)
(* the object has exactly the fields userId, loginTime, status, in that    *)
(* order.                                                                  *)
Thm_C5_LineFormat ==
    pc = "done" =>
        LET lines == FileLines
        IN  \A k \in 1..Len(lines) :
               LET rec == ParseLine(lines[k])
               IN  /\ rec.ok
                   /\ Len(rec.items) = 3
                   /\ rec.items[1][1] = "userId"
                   /\ rec.items[2][1] = "loginTime"
                   /\ rec.items[3][1] = "status"
                   /\ rec.key = rec.items[1][2]
                   /\ IsHourMinute(rec.items[2][2])

\* an output whose last line is the record of user500 with its three fields
Witness_C5 ==
    /\ pc = "done"
    /\ LET lines == FileLines
       IN  /\ Len(lines) = 500
           /\ ParseLine(lines[500]).ok
           /\ ParseLine(lines[500]).key = "user500"
           /\ Len(ParseLine(lines[500]).items) = 3

\* a parsed line with the values of loginTime and status blanked
Masked(rec) ==
    [key   |-> rec.key,
     items |-> [i \in 1..Len(rec.items) |->
                   IF rec.items[i][1] \in {"loginTime", "status"}
                     THEN <<rec.items[i][1], "*">>
                     ELSE rec.items[i]]]

\* the line a parsed line stands for
Unparsed(rec) == "session:" \o rec.key \o " → " \o JsonDumps(rec.items)

(* C6: the output of a run and the output of the successful run before it  *)
(* have the same shape: 500 lines each, and line by line the same key, the *)
(* same userId and the same fields; they differ at most in the values of   *)
(* loginTime and status.  (The run is about to open the file, which still  *)
(* holds the output of the run before; its own lines are in sessions.)     *)
Thm_C6_SameShapeAcrossRuns ==
    (pc = "open" /\ last_exit = "done") =>
        LET old == FileLines
            new == sessions
        IN  /\ Len(old) = 500
            /\ Len(new) = 500
            /\ \A k \in 1..500 :
                  LET o == ParseLine(old[k])
                      n == ParseLine(new[k])
                  IN  /\ o.ok /\ n.ok
                      /\ Unparsed(o) = old[k]
                      /\ Unparsed(n) = new[k]
                      /\ Masked(o) = Masked(n)

\* two successive runs whose outputs differ
Witness_C6 ==
    /\ pc = "open"
    /\ last_exit = "done"
    /\ Len(sessions) = 500
    /\ file.content # Join("\n", sessions)

(* C7: records are generated and written in ascending order of the user's  *)
(* number with no gap: the line appended last is the one of the user whose *)
(* number is the length of sessions, line k of the output is the record of *)
(* user k, and the loop runs exactly 500 iterations and then stops.        *)
Thm_C7_SequentialOrder ==
    /\ pc = "loop" => it \in 1..501 /\ Len(sessions) = it - 1
    /\ pc # "loop" => it = 501 /\ Len(sessions) = 500
    /\ sessions # <<>> =>
          LET rec == ParseLine(sessions[Len(sessions)])
          IN  /\ rec.ok
              /\ IsUserId(rec.key)
              /\ DecimalValue(SubSeq(rec.key, 5, 7)) = Len(sessions)
    /\ pc = "done" =>
          LET lines == FileLines
          IN  /\ Len(lines) = 500
              /\ \A k \in 1..Len(lines) :
                    LET rec == ParseLine(lines[k])
                    IN  /\ rec.ok
                        /\ IsUserId(rec.key)
                        /\ DecimalValue(SubSeq(rec.key, 5, 7)) = k

\* the loop has ended after the record of user500 and the output is written
Witness_C7 ==
    /\ pc = "done"
    /\ it = 501
    /\ user_id = "user500"
    /\ ParseLine(FileLines[1]).key = "user001"

(* C8: the login timestamp of a record is the time read for that record    *)
(* less a whole number of minutes from 0 to 1440: never later than the     *)
(* time read and never more than 24 hours before it.                       *)
Thm_C8_WithinLast24Hours ==
    user_id # Unbound =>
        /\ offset \in 0..1440
        /\ SecondsBetween(login_time, now) = 60 * offset
        /\ SecondsBetween(login_time, now) >= 0
        /\ SecondsBetween(login_time, now) <= 24 * 3600
        /\ login_time.seconds \in 0..(SecondsPerDay - 1)

\* the third record of a run started at 12:34:56 from seed 0: its login time
\* is exactly 24 hours before the time read (offset 1440), after a first
\* record whose login time is the time read (offset 0)
Witness_C8 ==
    /\ it = 4
    /\ offset = 1440
    /\ SecondsBetween(login_time, now) = 86400
    /\ now.seconds = 45296 + 2 * ClockStep
    /\ ItemValue(ParseLine(sessions[1]).items, "loginTime") = "12:34"

(* C9: the file is not opened before all 500 records are generated; a run  *)
(* opens it once, truncating, writes once, the whole content, and closes   *)
(* it; after a successful run the file holds the 500 lines of that run and *)
(* nothing of an earlier one.                                              *)
Thm_C9_OpenOnceWriteOnce ==
    /\ (calls # <<>> \/ f # Unbound) => (Len(sessions) = 500 /\ it = 501)
    /\ \E n \in 0..3 : calls = SubSeq(AllCalls, 1, n)
    /\ f = "open" <=> pc \in {"write", "close"}
    /\ pc = "write" => (file.exists /\ file.content = "")
    /\ pc \in {"close", "print", "done"} =>
          /\ file.exists
          /\ file.content = Join("\n", sessions)
    /\ pc = "done" =>
          /\ calls = AllCalls
          /\ f = "closed"
          /\ FileLines = sessions
          /\ Len(FileLines) = 500

\* a successful run after a successful run
Witness_C9 ==
    /\ pc = "done"
    /\ last_exit = "done"
    /\ calls = AllCalls
    /\ file.content = Join("\n", sessions)

(* C10: a failure of open or of write ends the run in the fatal state,     *)
(* with the file object closed if it was bound and nothing printed; the    *)
(* fatal state is left only by a new run of the script; the success        *)
(* message is printed only once the write is done and the file is closed.  *)
Thm_C10_FatalOnIoFailure ==
    [][ /\ (pc = "open" /\ f' = Unbound) => pc' = "fatal"
        /\ (pc = "write" /\ pc' # "close") => pc' = "fatal"
        /\ pc' = "fatal" =>
              /\ stdout' = <<>>
              /\ f' \in {Unbound, "closed"}
              /\ f' = Unbound <=> calls' = <<"open:w">>
        /\ pc = "fatal" => (pc' = "loop" /\ calls' = <<>> /\ sessions' = <<>>)
        /\ stdout' # <<>> =>
              /\ stdout' = <<SuccessMessage>>
              /\ pc' = "done"
              /\ f' = "closed"
              /\ calls' = AllCalls
              /\ file'.content = Join("\n", sessions')
      ]_vars

\* the write has failed and the with statement has closed the file
Witness_C10 ==
    /\ pc = "fatal"
    /\ f = "closed"
    /\ calls = <<"open:w", "write", "close">>
    /\ stdout = <<>>
    /\ file.content # Join("\n", sessions)

=============================================================================
